---- MODULE Spec2Model ----
(***************************************************************************)
(* State-machine model of src/ica_megnet_feature_pipeline.py: a top-level  *)
(* script that loads a raw MEG recording, keeps the MEG channels, filters, *)
(* notch-filters and resamples it, fits a FastICA decomposition, extracts  *)
(* the source and mixing matrices and plots one temporal trace and one     *)
(* spatial map per component.                                              *)
(*                                                                         *)
(* The script's statements are calls into the MNE library.  Each call is   *)
(* modelled by its effect on the objects the script holds: the Raw object  *)
(* bound to `raw` (modified in place: the script discards every return     *)
(* value and goes on using `raw`), the ICA object bound to `ica`, the      *)
(* arrays `sources` and `mixing`, the loop variable `ic`, standard output  *)
(* and the slices handed to the plots.  An exception raised by a call is   *)
(* not caught anywhere in the script, so it ends the run.                  *)
(*                                                                         *)
(* Numeric sample values are not modelled.  A matrix entry is a symbolic   *)
(* term naming what it holds: <<"s", k, t>> is the activation of           *)
(* underlying component k at sample t, <<"a", c, k>> the weight of         *)
(* component k on the channel named c.                                     *)
(***************************************************************************)
EXTENDS Integers, Sequences, FiniteSets, TLC

VARIABLES
    N_ICA,       \* line 29: number of components (user input)
    LOW_FREQ,    \* line 30: lower cutoff in Hz (user input)
    HIGH_FREQ,   \* line 31: upper cutoff in Hz (user input)
    input,       \* the content of RAW_FILE and the ambient numpy RNG seed
    heap,        \* the Raw objects allocated so far, by object id
    raw,         \* the object id bound to the name `raw` (0: unbound)
    np_random,   \* state of numpy's global random generator
    ica,         \* the ICA object
    rng,         \* the generator the fit draws from
    lim_ok,      \* FastICA: whether the last iteration met the tolerance
    sources,     \* line 69
    mixing,      \* line 70
    ic,          \* loop variable of line 78
    features,    \* the (ic, temporal, spatial) triples handed to the plots
    stdout,      \* what print() has written
    warnings,    \* warnings issued (not exceptions)
    err,         \* the uncaught exception, if any
    pc           \* the statement the script is at

vars == <<N_ICA, LOW_FREQ, HIGH_FREQ, input, heap, raw, np_random, ica, rng,
          lim_ok, sources, mixing, ic, features, stdout, warnings, err, pc>>

----------------------------------------------------------------------------
(* Bounds of the model *)

MaxCh == 4        \* channels in the input file: 0..MaxCh
MaxTimes == 2     \* samples in the input file: 5..4+MaxTimes, so that the
                  \* slowest input rate keeps a sample after resampling
MaxICA == 3       \* N_ICA ranges over 1..MaxICA
MaxIter == 3      \* FastICA iterations allowed (max_iter="auto")
MaxAmbient == 2   \* ambient numpy seeds: 0..MaxAmbient

(* Program constants *)

NotchFreq == 50
ResampleRate == 200
RandomState == 97

----------------------------------------------------------------------------
(* Inputs *)

AuxKinds == <<"eeg", "eog", "ecg", "stim">>

\* The channel list of a file: channel p (named p) is a MEG sensor when
\* megAt[p], otherwise an auxiliary channel whose kind depends on p.
ChannelList(megAt) ==
    [p \in 1..Len(megAt) |->
        [name |-> p,
         kind |-> IF megAt[p] THEN "meg" ELSE AuxKinds[(p % 4) + 1]]]

BoolSeqs(n) == [1..n -> BOOLEAN]

SamplingRates == {60, 150, 200, 1000}
LowFreqs == {1, 50}
HighFreqs == {10, 40}

Inputs ==
    { [ch |-> ChannelList(m), sfreq |-> f, n_times |-> 4 + n, np_seed |-> a] :
        m \in UNION { BoolSeqs(k) : k \in 0..MaxCh },
        f \in SamplingRates, n \in 1..MaxTimes, a \in 0..MaxAmbient }

NoError == [type |-> "none", at |-> "none", why |-> "none"]
NoICA == [n_components |-> 0, random_state |-> 0, fitted |-> FALSE,
          order |-> 0, n_iter |-> 0]
NoRng == [global |-> FALSE, state |-> 0]
Empty == <<>>

Init ==
    /\ N_ICA \in 1..MaxICA
    /\ LOW_FREQ \in LowFreqs
    /\ HIGH_FREQ \in HighFreqs
    /\ input \in Inputs
    /\ heap = <<>>
    /\ raw = 0
    /\ np_random = input.np_seed
    /\ ica = NoICA
    /\ rng = NoRng
    /\ lim_ok = FALSE
    /\ sources = Empty
    /\ mixing = Empty
    /\ ic = 0
    /\ features = <<>>
    /\ stdout = <<>>
    /\ warnings = <<>>
    /\ err = NoError
    /\ pc = "load"

----------------------------------------------------------------------------
(* Control flow: the script is a straight line of statements (lines        *)
(* 37-109) with one loop (line 78).  An uncaught exception ends it.        *)

\* NextStage with the decomposition started one statement early.
FitBeforeResample(s) ==
    CASE s = "load" -> "pick_types"
      [] s = "pick_types" -> "filter"
      [] s = "filter" -> "notch_filter"
      [] s = "notch_filter" -> "fit"
      [] s = "resample" -> "fit"
      [] s = "fit" -> "fit_iter"
      [] s = "fit_iter" -> "get_sources"
      [] s = "get_sources" -> "start_plots"
      [] s = "start_plots" -> "plot"
      [] s = "plot" -> "done"
      [] OTHER -> s

NextStage(s) ==
    CASE s = "load" -> "pick_types"
      [] s = "pick_types" -> "filter"
      [] s = "filter" -> "notch_filter"
      [] s = "notch_filter" -> "resample"
      [] s = "resample" -> "fit"
      [] s = "fit" -> "fit_iter"
      [] s = "fit_iter" -> "get_sources"
      [] s = "get_sources" -> "start_plots"
      [] s = "start_plots" -> "plot"
      [] s = "plot" -> "done"
      [] OTHER -> s

\* PcAfter with the exception swallowed.
ContinueAfter(s, failed) == NextStage(s)

\* Where control goes after statement s: nothing catches an exception.
PcAfter(s, failed) == IF failed THEN "error" ELSE NextStage(s)

Raised(at, why) == [type |-> "ValueError", at |-> at, why |-> why]

ErrAfter(at, failed, why) == IF failed THEN Raised(at, why) ELSE NoError

----------------------------------------------------------------------------
(* Raw objects.  Every Raw method the script calls works on the object     *)
(* itself; the script relies on it, discarding each call's return value.   *)

Signal(file) ==
    [ch |-> file.ch, sfreq |-> file.sfreq, n_times |-> file.n_times,
     proc |-> <<>>]

\* Store as a method that returns a modified copy would behave.
StoreCopy(h, r, sig) == Append(h, sig)

Store(h, r, sig) == [h EXCEPT ![r] = sig]

\* Picked with eeg=True.
PickedWithEEG(kind) == kind \in {"meg", "eeg"}

\* line 41: pick_types(meg=True, eeg=False, eog=False, ecg=False); every
\* other channel kind is off by default.
Picked(kind) == kind = "meg"

PickChannels(sig) ==
    [sig EXCEPT !.ch = SelectSeq(sig.ch, LAMBDA c : Picked(c.kind)),
                !.proc = Append(@, "pick_types")]

\* Whether pick_types itself rejects an empty selection depends on the
\* library version: it may raise, or leave a Raw with no channels, which
\* the first filter call then rejects.
PickRaises(sig) == IF sig.ch = <<>> THEN BOOLEAN ELSE {FALSE}

\* FilterKind with the range validated before the filter is designed.
FilterKindValidated(l, h, sfreq) ==
    IF l >= h \/ 2 * h > sfreq THEN "error" ELSE "bandpass"

\* line 48: raw.filter(l_freq, h_freq) for positive, distinct cutoffs.
\* A cutoff above the Nyquist frequency is rejected; l_freq < h_freq
\* designs a band-pass filter, l_freq > h_freq a band-stop filter.
FilterKind(l, h, sfreq) ==
    IF 2 * l > sfreq \/ 2 * h > sfreq THEN "error"
    ELSE IF l < h THEN "bandpass"
    ELSE "bandstop"

\* line 49: a notch needs its frequency below the Nyquist frequency.
NotchFails(freq, sfreq) == 2 * freq >= sfreq

\* line 52: the new number of samples, n * rate / sfreq rounded.
ResampledLength(n, rate, sfreq) == (2 * n * rate + sfreq) \div (2 * sfreq)

ResampleSignal(sig, rate) ==
    [sig EXCEPT !.n_times = ResampledLength(sig.n_times, rate, sig.sfreq),
                !.sfreq = rate,
                !.proc = Append(@, "resample")]

Load ==
    /\ pc = "load"
    /\ stdout' = Append(stdout, "Loading MEG file...")
    /\ heap' = Append(heap, Signal(input))
    /\ raw' = Len(heap) + 1
    /\ pc' = PcAfter("load", FALSE)
    /\ UNCHANGED <<N_ICA, LOW_FREQ, HIGH_FREQ, input, np_random, ica, rng,
                   lim_ok, sources, mixing, ic, features, warnings, err>>

PickTypes ==
    /\ pc = "pick_types"
    /\ LET out == PickChannels(heap[raw])
       IN \E raises \in PickRaises(out) :
            /\ heap' = IF raises THEN heap ELSE Store(heap, raw, out)
            /\ err' = ErrAfter("pick_types", raises, "no channels")
            /\ pc' = PcAfter("pick_types", raises)
    /\ UNCHANGED <<N_ICA, LOW_FREQ, HIGH_FREQ, input, raw, np_random, ica,
                   rng, lim_ok, sources, mixing, ic, features, stdout,
                   warnings>>

Filter ==
    /\ pc = "filter"
    /\ stdout' = Append(stdout, "Filtering...")
    /\ LET sig == heap[raw]
           kind == FilterKind(LOW_FREQ, HIGH_FREQ, sig.sfreq)
           failed == sig.ch = <<>> \/ kind = "error"
           why == IF sig.ch = <<>> THEN "no channels" ELSE "filter range"
       IN /\ heap' = IF failed THEN heap
                     ELSE Store(heap, raw,
                                [sig EXCEPT !.proc = Append(@, kind)])
          /\ err' = ErrAfter("filter", failed, why)
          /\ pc' = PcAfter("filter", failed)
    /\ UNCHANGED <<N_ICA, LOW_FREQ, HIGH_FREQ, input, raw, np_random, ica,
                   rng, lim_ok, sources, mixing, ic, features, warnings>>

NotchFilter ==
    /\ pc = "notch_filter"
    /\ LET sig == heap[raw]
           failed == NotchFails(NotchFreq, sig.sfreq)
       IN /\ heap' = IF failed THEN heap
                     ELSE Store(heap, raw,
                                [sig EXCEPT !.proc = Append(@, "notch")])
          /\ err' = ErrAfter("notch_filter", failed, "notch frequency")
          /\ pc' = PcAfter("notch_filter", failed)
    /\ UNCHANGED <<N_ICA, LOW_FREQ, HIGH_FREQ, input, raw, np_random, ica,
                   rng, lim_ok, sources, mixing, ic, features, stdout,
                   warnings>>

Resample ==
    /\ pc = "resample"
    /\ heap' = Store(heap, raw, ResampleSignal(heap[raw], ResampleRate))
    /\ pc' = PcAfter("resample", FALSE)
    /\ UNCHANGED <<N_ICA, LOW_FREQ, HIGH_FREQ, input, raw, np_random, ica,
                   rng, lim_ok, sources, mixing, ic, features, stdout,
                   warnings, err>>


----------------------------------------------------------------------------
(* ICA (lines 58-66): FastICA with n_components=N_ICA, random_state=97,    *)
(* max_iter="auto".  The generator is a small linear congruential one; the *)
(* starting rotation drawn from it fixes the order in which the underlying *)
(* components come out (ICA identifies them only up to order).             *)

RngNext(s) == (5 * s + 3) % 16

\* CheckRandomState as random_state=None behaves: numpy's global generator.
GlobalRandomState(seed) == [global |-> TRUE, state |-> np_random]

\* random_state=97 (line 62): a generator of its own, seeded with it.
CheckRandomState(seed) == [global |-> FALSE, state |-> seed % 16]

\* The underlying component that row / column i of the result holds.
Comp(i, order, n) == (i + order) % n

\* An integer n_components cannot exceed the number of channels fitted.
FitRejects(n, sig) == n > Len(sig.ch)

FitStart ==
    /\ pc = "fit"
    /\ stdout' = Append(stdout, "Running ICA decomposition...")
    /\ LET sig == heap[raw]
           failed == FitRejects(N_ICA, sig)
           gen == CheckRandomState(RandomState)
           drawn == RngNext(IF gen.global THEN np_random ELSE gen.state)
       IN /\ ica' = [n_components |-> N_ICA, random_state |-> RandomState,
                     fitted |-> FALSE,
                     order |-> IF failed THEN 0 ELSE drawn % N_ICA,
                     n_iter |-> 0]
          /\ rng' = IF failed THEN rng ELSE [gen EXCEPT !.state = drawn]
          /\ np_random' = IF ~failed /\ gen.global THEN drawn ELSE np_random
          /\ err' = ErrAfter("fit", failed, "n_components")
          /\ pc' = PcAfter("fit", failed)
    /\ UNCHANGED <<N_ICA, LOW_FREQ, HIGH_FREQ, input, heap, raw, lim_ok,
                   sources, mixing, ic, features, warnings>>

\* FitStops with the iteration limit off by one.
FitStopsLate(met, n) == met \/ n > MaxIter

\* Whether the fixed-point loop stops after an iteration: the change fell
\* below the tolerance, or the iterations are used up.
FitStops(met, n) == met \/ n >= MaxIter

\* Running out of iterations is a warning, not an exception.
FitWarnings(w, met) == IF met THEN w ELSE Append(w, "ConvergenceWarning")

\* One iteration of the fixed-point loop; whether the change fell below
\* the tolerance is a numerical outcome, either way here.
FitIterate ==
    /\ pc = "fit_iter"
    /\ \E met \in BOOLEAN :
         LET n == ica.n_iter + 1
             stops == FitStops(met, n)
         IN /\ lim_ok' = met
            /\ ica' = [ica EXCEPT !.n_iter = n, !.fitted = stops]
            /\ warnings' = IF stops THEN FitWarnings(warnings, met)
                           ELSE warnings
            /\ pc' = IF stops THEN PcAfter("fit_iter", FALSE) ELSE pc
    /\ UNCHANGED <<N_ICA, LOW_FREQ, HIGH_FREQ, input, heap, raw, np_random,
                   rng, sources, mixing, ic, features, stdout, err>>

----------------------------------------------------------------------------
(* Extraction (lines 68-70) and the loop over the components (78-104).     *)
(* Arrays are indexed from 0, as in the script.                            *)

\* ica.get_sources(raw): a new Raw with one channel per component.
SourcesRaw(sig, model) ==
    [ch |-> [i \in 1..model.n_components |-> [name |-> i - 1, kind |-> "misc"]],
     sfreq |-> sig.sfreq, n_times |-> sig.n_times, proc |-> <<"ica">>]

\* .get_data(): shape (n_components, n_times)
SourcesOf(sig, model) ==
    [i \in 0..(model.n_components - 1) |->
        [t \in 0..(sig.n_times - 1) |->
            <<"s", Comp(i, model.order, model.n_components), t>>]]

\* ica.get_components(): shape (n_channels, n_components)
ComponentsOf(sig, model) ==
    [c \in 0..(Len(sig.ch) - 1) |->
        [i \in 0..(model.n_components - 1) |->
            <<"a", sig.ch[c + 1].name,
              Comp(i, model.order, model.n_components)>>]]

GetSources ==
    /\ pc = "get_sources"
    /\ stdout' = Append(stdout, "Extracting ICA sources...")
    /\ heap' = Append(heap, SourcesRaw(heap[raw], ica))
    /\ sources' = SourcesOf(heap[raw], ica)
    /\ mixing' = ComponentsOf(heap[raw], ica)
    /\ pc' = PcAfter("get_sources", FALSE)
    /\ UNCHANGED <<N_ICA, LOW_FREQ, HIGH_FREQ, input, raw, np_random, ica,
                   rng, lim_ok, ic, features, warnings, err>>

StartPlots ==
    /\ pc = "start_plots"
    /\ stdout' = Append(stdout, "Generating IC plots...")
    /\ ic' = 0
    /\ pc' = PcAfter("start_plots", FALSE)
    /\ UNCHANGED <<N_ICA, LOW_FREQ, HIGH_FREQ, input, heap, raw, np_random,
                   ica, rng, lim_ok, sources, mixing, features, warnings,
                   err>>

\* range(N_ICA), line 78
LoopRange(n) == 0..(n - 1)

\* TemporalOf reading the previous row (index -1 wraps to the last row).
TemporalOfPrevious(src, i) ==
    src[(i + Cardinality(DOMAIN src) - 1) % Cardinality(DOMAIN src)]

\* sources[ic], line 80
TemporalOf(src, i) == src[i]

\* SpatialOf reading row ic of the mixing matrix instead of column ic.
SpatialOfRow(mix, i) == mix[i]

\* mixing[:, ic], line 81
SpatialOf(mix, i) == [c \in DOMAIN mix |-> mix[c][i]]

\* One pass of the loop body; ic is the next index range(N_ICA) yields.
PlotComponent ==
    /\ pc = "plot"
    /\ ic \in LoopRange(N_ICA)
    /\ features' = Append(features,
                          [index |-> ic,
                           temporal |-> TemporalOf(sources, ic),
                           spatial |-> SpatialOf(mixing, ic)])
    /\ ic' = ic + 1
    /\ UNCHANGED <<N_ICA, LOW_FREQ, HIGH_FREQ, input, heap, raw, np_random,
                   ica, rng, lim_ok, sources, mixing, stdout, warnings, err,
                   pc>>

Finish ==
    /\ pc = "plot"
    /\ ic \notin LoopRange(N_ICA)
    /\ stdout' = Append(stdout, "Done. You now have:")
    /\ pc' = PcAfter("plot", FALSE)
    /\ UNCHANGED <<N_ICA, LOW_FREQ, HIGH_FREQ, input, heap, raw, np_random,
                   ica, rng, lim_ok, sources, mixing, ic, features, warnings,
                   err>>

Next ==
    \/ Load
    \/ PickTypes
    \/ Filter
    \/ NotchFilter
    \/ Resample
    \/ FitStart
    \/ FitIterate
    \/ GetSources
    \/ StartPlots
    \/ PlotComponent
    \/ Finish

Spec == Init /\ [][Next]_vars


----------------------------------------------------------------------------
(* Properties *)

IsPrefix(a, b) == Len(a) <= Len(b) /\ \A i \in 1..Len(a) : a[i] = b[i]

HasProc(sig, op) == \E i \in 1..Len(sig.proc) : sig.proc[i] = op

Filtered(sig) == HasProc(sig, "bandpass") \/ HasProc(sig, "bandstop")

MegOf(chs) == SelectSeq(chs, LAMBDA c : c.kind = "meg")

Extracted == pc \in {"start_plots", "plot", "done"}

FitReturned == pc \in {"get_sources", "start_plots", "plot", "done"}

\* The filter statement has run on a signal that has channels.
FilterRan == Len(stdout) >= 2 /\ heap[raw].ch # <<>>

PreprocessingSteps == {"pick_types", "filter", "notch_filter", "resample"}

\* C1: once the matrices are extracted, the source matrix has exactly
\* n_components (= N_ICA) rows; every feature built has a temporal trace of
\* n_times entries and a spatial vector of n_channels entries, n_times and
\* n_channels being those of the preprocessed signal; when the loop is over
\* there are exactly n_components features.
C1_ShapeInvariants ==
    /\ Extracted =>
         /\ ica.n_components = N_ICA
         /\ DOMAIN sources = 0..(ica.n_components - 1)
         /\ DOMAIN mixing = 0..(Len(heap[raw].ch) - 1)
    /\ \A k \in 1..Len(features) :
         /\ DOMAIN features[k].temporal = 0..(heap[raw].n_times - 1)
         /\ DOMAIN features[k].spatial = 0..(Len(heap[raw].ch) - 1)
    /\ pc = "done" => Len(features) = ica.n_components

\* A finished run with more channels than components, on a signal whose
\* number of samples the resampling changed.
C1_Witness ==
    /\ pc = "done"
    /\ Len(features) = 3
    /\ Len(heap[raw].ch) > 3
    /\ heap[raw].n_times # input.n_times

\* C2: the k-th feature built is the one for index k-1; it holds row k-1 of
\* the source matrix and column k-1 of the mixing matrix, which belong to
\* the same underlying component; the indices visited are 0, 1, ... in
\* ascending order, each once, none outside [0, N_ICA), and all of them
\* when the loop is over.
C2_PairsSameIndex ==
    /\ \A k \in 1..Len(features) :
         LET f == features[k]
         IN /\ f.index = k - 1
            /\ f.index \in 0..(N_ICA - 1)
            /\ f.temporal = sources[f.index]
            /\ DOMAIN f.spatial = DOMAIN mixing
            /\ \A c \in DOMAIN mixing : f.spatial[c] = mixing[c][f.index]
            /\ \A t \in DOMAIN f.temporal : \A c \in DOMAIN f.spatial :
                 f.temporal[t][2] = f.spatial[c][3]
    /\ pc = "plot" => ic = Len(features) /\ ic <= N_ICA
    /\ pc = "done" => Len(features) = N_ICA

\* A finished run over three components that come out in a rotated order.
C2_Witness ==
    /\ pc = "done"
    /\ Len(features) = 3
    /\ ica.order # 0

StageOrder ==
    <<"Loading MEG file...", "Filtering...", "Running ICA decomposition...",
      "Extracting ICA sources...", "Generating IC plots...",
      "Done. You now have:">>

PreprocessingOrder == <<"pick_types", "filter", "notch", "resample">>

\* The operations applied to a signal, either kind of filter read as "filter".
StepsOf(sig) ==
    [i \in 1..Len(sig.proc) |->
        IF sig.proc[i] \in {"bandpass", "bandstop"} THEN "filter"
        ELSE sig.proc[i]]

StatementOrder ==
    <<"load", "pick_types", "filter", "notch_filter", "resample", "fit",
      "fit_iter", "get_sources", "start_plots", "plot", "done", "error">>

Position(s) == CHOOSE i \in 1..Len(StatementOrder) : StatementOrder[i] = s

CutoffInvalid ==
    \/ LOW_FREQ >= HIGH_FREQ
    \/ LOW_FREQ <= 0
    \/ HIGH_FREQ <= 0
    \/ 2 * HIGH_FREQ > input.sfreq

C5_AsStated ==
    raw # 0 =>
        /\ heap[raw].sfreq <= input.sfreq
        /\ ResampleRate > input.sfreq => ~HasProc(heap[raw], "resample")

\* C6 as stated: after the preprocessing the object that was loaded still
\* has its channels, its unfiltered samples and its sampling rate, and the
\* preprocessed signal `raw` is another object.
C6_AsStated ==
    (pc \in {"fit", "fit_iter"} \/ FitReturned) =>
        /\ heap[1].ch = input.ch
        /\ heap[1].sfreq = input.sfreq
        /\ heap[1].n_times = input.n_times
        /\ ~Filtered(heap[1])
        /\ raw # 1

\* C6, amended: the preprocessing works in place on the object that was
\* loaded: `raw` names that one object throughout, no other signal object
\* exists before the sources are extracted, and after the four steps that
\* object itself holds only the MEG channels, is filtered and notch
\* filtered, and has the rate 200 and the resampled number of samples.
C6_InPlace ==
    raw # 0 =>
        /\ raw = 1
        /\ sources = Empty => Len(heap) = 1
        /\ (pc \notin {"load", "pick_types"} /\ err.at # "pick_types") =>
             heap[1].ch = MegOf(input.ch)
        /\ (pc \in {"fit", "fit_iter"} \/ FitReturned) =>
             /\ StepsOf(heap[1]) = PreprocessingOrder
             /\ heap[1].sfreq = ResampleRate
             /\ heap[1].n_times =
                  ResampledLength(input.n_times, ResampleRate, input.sfreq)

\* The preprocessing is over and the loaded object has fewer channels and
\* another rate than the file had.
C6_Witness ==
    /\ pc = "fit"
    /\ Len(heap[1].ch) < Len(input.ch)
    /\ heap[1].sfreq # input.sfreq
    /\ heap[1].n_times # input.n_times

Converged == ica.fitted /\ warnings = <<>>

\* C7: the fixed-point loop stops after at most MaxIter iterations and the
\* fit then returns a model.  The model counts as converged (no convergence
\* warning) only if the last iteration met the tolerance; otherwise all
\* iterations were used, the model is returned all the same, no exception
\* is raised and the run is at the extraction or beyond.
C7_FitReturnsModel ==
    /\ ica.n_iter <= MaxIter
    /\ pc = "fit_iter" => ~ica.fitted /\ ica.n_iter < MaxIter
    /\ FitReturned => ica.fitted /\ err = NoError
    /\ ica.fitted =>
         /\ FitReturned
         /\ Converged <=> lim_ok
         /\ ~Converged => ica.n_iter = MaxIter /\ err = NoError

\* A run that ended after a fit that used up its iterations.
C7_Witness ==
    /\ pc = "done"
    /\ ~lim_ok
    /\ ica.n_iter = MaxIter
    /\ warnings = <<"ConvergenceWarning">>
    /\ Len(features) = N_ICA

SeededOrder == RngNext(RandomState % 16) % N_ICA

SeededModel ==
    [n_components |-> N_ICA, order |-> SeededOrder]

\* C8: the fit draws from a generator of its own seeded with 97: numpy's
\* global generator is never advanced, and the order of the components, and
\* with it the source and mixing matrices, is the one the seed, N_ICA and
\* the preprocessed signal determine, whatever the global generator holds.
C8_SeededFit ==
    /\ np_random = input.np_seed
    /\ (pc = "fit_iter" \/ FitReturned) =>
         /\ ~rng.global
         /\ ica.random_state = RandomState
         /\ ica.order = SeededOrder
    /\ Extracted =>
         /\ sources = SourcesOf(heap[raw], SeededModel)
         /\ mixing = ComponentsOf(heap[raw], SeededModel)

\* Matrices extracted in a run where the global generator would have given
\* another order of the components.
C8_Witness ==
    /\ Extracted
    /\ RngNext(np_random) % N_ICA # ica.order

NoMeg == MegOf(input.ch) = <<>>

C10_PreprocessingFailureFatal ==
    /\ []((err.type # "none" /\ err.at \in PreprocessingSteps) =>
            /\ pc = "error"
            /\ ica = NoICA
            /\ sources = Empty
            /\ mixing = Empty
            /\ features = <<>>
            /\ Len(stdout) <= 2)
    /\ [][/\ err = NoError
          /\ err' # NoError => err'.at = pc /\ pc' = "error"]_vars

\* The run ended at the notch filter, after the selection and the band-pass
\* filter went through.
C10_Witness ==
    /\ pc = "error"
    /\ err.at = "notch_filter"
    /\ HasProc(heap[raw], "bandpass")


====
